---- MODULE Spec2Model ----
(***************************************************************************)
(* Model of import_students.py: wait_for_server, import_students and the   *)
(* __main__ block, run against an environment (the local web server and    *)
(* the file system) that answers every call in every way it can.           *)
(***************************************************************************)
EXTENDS Integers, Sequences, FiniteSets, TLC

\* ------------------------------------------------------------------------
\* Bounds of the model (not program constants)
\* ------------------------------------------------------------------------

\* number of consecutive runs of the script that are modelled
MaxRuns == 2

\* ------------------------------------------------------------------------
\* Program constants
\* ------------------------------------------------------------------------

\* wait_for_server(max_attempts=30, ...)
max_attempts == 30

\* ------------------------------------------------------------------------
\* Environment values: HTTP status codes and JSON bodies
\* ------------------------------------------------------------------------

\* status codes the server may answer with: 200, a success code other than
\* 200, and an error code
StatusCodes == {200, 201, 500}

\* the "status-success range" of the specification (2xx)
IsSuccessStatus(code) == code >= 200 /\ code < 300

\* a key that the JSON object does not carry
Absent == "absent"

\* JSON values are written as their JSON text
SuccessVals == {"true", "1", "false", "null", "0", "''", Absent}
MessageVals == {"msg", Absent}
CountVals == {"42", Absent}
FlagVals == {"true", "false", "null", Absent}

Malformed == [kind |-> "malformed", success |-> Absent, message |-> Absent, imported |-> Absent]
NonObject == [kind |-> "nonobject", success |-> Absent, message |-> Absent, imported |-> Absent]
NoBody == [kind |-> "none", success |-> Absent, message |-> Absent, imported |-> Absent]
Obj(s, m, i) == [kind |-> "object", success |-> s, message |-> m, imported |-> i]

StatusBodies == {Malformed, NonObject} \cup {Obj(Absent, Absent, i) : i \in FlagVals}
UploadBodies == {Malformed, NonObject} \cup {Obj(s, m, i) : s \in SuccessVals, m \in MessageVals, i \in CountVals}

\* outcomes of one HTTP call: it raises (connection error, timeout) or it
\* returns a response
NoResponse == [kind |-> "none", code |-> 0, body |-> NoBody]
Raised == [kind |-> "exception", code |-> 0, body |-> NoBody]
Resp(c, b) == [kind |-> "response", code |-> c, body |-> b]

HealthOutcomes == {Raised} \cup {Resp(c, NoBody) : c \in StatusCodes}
StatusOutcomes == {Raised} \cup {Resp(c, b) : c \in StatusCodes, b \in StatusBodies}
UploadOutcomes == {Raised} \cup {Resp(c, b) : c \in StatusCodes, b \in UploadBodies}

\* ------------------------------------------------------------------------
\* Python semantics used by the script
\* ------------------------------------------------------------------------

\* dict.get(key): the decoded value, None for a missing key or a JSON null
PyGet(v) == IF v \in {Absent, "null"} THEN "None" ELSE v

\* truth value of a decoded JSON value in an `if`
Truthy(v) == v \notin {"None", "false", "0", "''"}

\* response.json() raises on a body that is not JSON; .get raises
\* AttributeError on a decoded value that is not a dict
JsonGetRaises(body) == body.kind \in {"malformed", "nonobject"}

\* the exception `e` caught by `except Exception as e` for the outcome r of a
\* call followed by response.json() and .get
ExceptionOf(r) ==
    IF r.kind = "exception" THEN "RequestException"
    ELSE IF r.body.kind = "malformed" THEN "JSONDecodeError"
    ELSE "AttributeError"

\* ------------------------------------------------------------------------
\* State
\* ------------------------------------------------------------------------
VARIABLES
    pc,             \* position of the run (the states of the run sequencing)
    attempt,        \* loop variable of wait_for_server
    health,         \* outcome of the last health request of the run
    sleeps,         \* calls of time.sleep(delay) in the run
    response,       \* outcome of the last HTTP call made by import_students
    status,         \* local `status` of import_students (decoded status body)
    statusGets,     \* GET /api/import-status requests issued in the run
    fileFound,      \* what os.path.exists(doc_path) answered in the run
    posts,          \* POST /api/import-students requests issued in the run
    log,            \* records emitted through logger, in order
    retval,         \* return value of import_students (`success` in __main__)
    exitCode,       \* argument of sys.exit
    serverImported, \* the server's "imported" flag
    run,            \* number of the current run
    prev            \* summary of the previous run

vars == <<pc, attempt, health, sleeps, response, status, statusGets, fileFound,
          posts, log, retval, exitCode, serverImported, run, prev>>

Entry(level, kind, text, code, body) ==
    [level |-> level, kind |-> kind, text |-> text, code |-> code, body |-> body]

Logged(kind) == \E i \in DOMAIN log : log[i].kind = kind

NoPrev == [any |-> FALSE, success |-> FALSE, posts |-> 0]

Init ==
    /\ pc = "START"
    /\ attempt = 0
    /\ health = NoResponse
    /\ sleeps = 0
    /\ response = NoResponse
    /\ status = NoBody
    /\ statusGets = 0
    /\ fileFound = "unknown"
    /\ posts = 0
    /\ log = <<>>
    /\ retval = "None"
    /\ exitCode = -1
    /\ serverImported \in BOOLEAN
    /\ run = 1
    /\ prev = NoPrev

\* `return value` inside import_students, after the records in `entries`
\* were logged
Return(value, entries) ==
    /\ pc' = "RETURNED"
    /\ retval' = value
    /\ log' = log \o entries

\* fall through to the next step of import_students
Goto(step, entries) ==
    /\ pc' = step
    /\ log' = log \o entries
    /\ UNCHANGED retval

\* ------------------------------------------------------------------------
\* import_students: entry
\* ------------------------------------------------------------------------
Start ==
    /\ pc = "START"
    /\ Goto("WAITING_FOR_SERVER", <<Entry("INFO", "start", "", 0, NoBody)>>)
    /\ UNCHANGED <<attempt, health, sleeps, response, status, statusGets,
                   fileFound, posts, exitCode, serverImported, run, prev>>

\* ------------------------------------------------------------------------
\* wait_for_server, and `if not wait_for_server(): return False`
\* ------------------------------------------------------------------------

\* variant: the status code is compared with the string "200"
HealthReady_Never(r) == FALSE

\* `if response.status_code == 200`
HealthReady(r) == r.kind = "response" /\ r.code = 200

\* variant: the return value of wait_for_server is not tested
WaitFailed_Ignored(ready) == FALSE

\* `if not wait_for_server()`
WaitFailed(ready) == ~ready

\* variant: the status check is left out
AfterWait_SkipStatus(ready, entries) ==
    IF WaitFailed(ready)
    THEN Return("False", entries)
    ELSE Goto("LOCATING_FILE", entries)

\* wait_for_server returned `ready` after logging `entries`
AfterWait(ready, entries) ==
    IF WaitFailed(ready)
    THEN Return("False", entries)
    ELSE Goto("CHECKING_STATUS", entries)

\* variant: the loop runs once more, `range(max_attempts + 1)`
HealthAttempt_OffByOne ==
    /\ pc = "WAITING_FOR_SERVER"
    /\ attempt <= max_attempts
    /\ \E r \in HealthOutcomes :
        /\ health' = r
        /\ IF HealthReady(r)
           THEN /\ AfterWait(TRUE, <<Entry("INFO", "ready", "", 0, NoBody)>>)
                /\ attempt' = 0
                /\ UNCHANGED sleeps
           ELSE IF r.kind = "exception"
           THEN /\ Goto("WAITING_FOR_SERVER", <<Entry("INFO", "waiting", "", 0, NoBody)>>)
                /\ sleeps' = sleeps + 1
                /\ attempt' = attempt + 1
           ELSE /\ attempt' = attempt + 1
                /\ UNCHANGED <<pc, log, sleeps, retval>>
    /\ UNCHANGED <<response, status, statusGets, fileFound, posts, exitCode,
                   serverImported, run, prev>>

\* variant: an answer that is not 200 does not use up an attempt
HealthAttempt_NoIncrement ==
    /\ pc = "WAITING_FOR_SERVER"
    /\ attempt < max_attempts
    /\ \E r \in HealthOutcomes :
        /\ health' = r
        /\ IF HealthReady(r)
           THEN /\ AfterWait(TRUE, <<Entry("INFO", "ready", "", 0, NoBody)>>)
                /\ attempt' = 0
                /\ UNCHANGED sleeps
           ELSE IF r.kind = "exception"
           THEN /\ Goto("WAITING_FOR_SERVER", <<Entry("INFO", "waiting", "", 0, NoBody)>>)
                /\ sleeps' = sleeps + 1
                /\ attempt' = attempt + 1
           ELSE /\ UNCHANGED <<attempt, pc, log, sleeps, retval>>
    /\ UNCHANGED <<response, status, statusGets, fileFound, posts, exitCode,
                   serverImported, run, prev>>

\* one iteration of `for attempt in range(max_attempts)`
HealthAttempt ==
    /\ pc = "WAITING_FOR_SERVER"
    /\ attempt < max_attempts
    /\ \E r \in HealthOutcomes :
        /\ health' = r
        /\ IF HealthReady(r)
           THEN /\ AfterWait(TRUE, <<Entry("INFO", "ready", "", 0, NoBody)>>)
                /\ attempt' = 0
                /\ UNCHANGED sleeps
           ELSE IF r.kind = "exception"
           THEN /\ Goto("WAITING_FOR_SERVER", <<Entry("INFO", "waiting", "", 0, NoBody)>>)
                /\ sleeps' = sleeps + 1
                /\ attempt' = attempt + 1
           ELSE /\ attempt' = attempt + 1
                /\ UNCHANGED <<pc, log, sleeps, retval>>
    /\ UNCHANGED <<response, status, statusGets, fileFound, posts, exitCode,
                   serverImported, run, prev>>

\* the loop ran out: wait_for_server logs the error and returns False
HealthExhausted ==
    /\ pc = "WAITING_FOR_SERVER"
    /\ attempt = max_attempts
    /\ AfterWait(FALSE, <<Entry("ERROR", "server_not_started", "", 0, NoBody)>>)
    /\ attempt' = 0
    /\ UNCHANGED <<health, sleeps, response, status, statusGets, fileFound,
                   posts, exitCode, serverImported, run, prev>>

\* ------------------------------------------------------------------------
\* import_students: status check
\* ------------------------------------------------------------------------

\* variant: the flag is read under a key the body never carries
StatusVerdict_WrongKey(r) ==
    IF r.kind = "exception" THEN "warn"
    ELSE IF r.code = 200
         THEN IF JsonGetRaises(r.body) THEN "warn"
              ELSE IF Truthy(PyGet(Absent)) THEN "imported"
              ELSE "proceed"
         ELSE "proceed"

\* variant: the status code is not tested
StatusVerdict_AnyStatus(r) ==
    IF r.kind = "exception" THEN "warn"
    ELSE IF JsonGetRaises(r.body) THEN "warn"
    ELSE IF Truthy(PyGet(r.body.imported)) THEN "imported"
    ELSE "proceed"

\* what the try/except block around GET /api/import-status does with the
\* outcome r: "imported" (return True), "warn" (except branch) or "proceed"
StatusVerdict(r) ==
    IF r.kind = "exception" THEN "warn"
    ELSE IF r.code = 200
         THEN IF JsonGetRaises(r.body) THEN "warn"
              ELSE IF Truthy(PyGet(r.body.imported)) THEN "imported"
              ELSE "proceed"
         ELSE "proceed"

\* `status = response.json()` is reached and returns
StatusAssigned(r) == r.kind = "response" /\ r.code = 200 /\ r.body.kind # "malformed"

\* variant: fail-closed, the except branch returns False
CheckStatus_FailClosed ==
    /\ pc = "CHECKING_STATUS"
    /\ \E r \in StatusOutcomes :
        /\ response' = r
        /\ status' = IF StatusAssigned(r) THEN r.body ELSE status
        /\ statusGets' = statusGets + 1
        /\ CASE StatusVerdict(r) = "imported" ->
                  Return("True", <<Entry("INFO", "already_imported", "", 0, NoBody)>>)
             [] StatusVerdict(r) = "warn" ->
                  Return("False", <<Entry("WARNING", "status_check_failed", ExceptionOf(r), 0, NoBody)>>)
             [] OTHER ->
                  Goto("LOCATING_FILE", <<>>)
    /\ UNCHANGED <<attempt, health, sleeps, fileFound, posts, exitCode,
                   serverImported, run, prev>>

CheckStatus ==
    /\ pc = "CHECKING_STATUS"
    /\ \E r \in StatusOutcomes :
        /\ response' = r
        /\ status' = IF StatusAssigned(r) THEN r.body ELSE status
        /\ statusGets' = statusGets + 1
        /\ CASE StatusVerdict(r) = "imported" ->
                  Return("True", <<Entry("INFO", "already_imported", "", 0, NoBody)>>)
             [] StatusVerdict(r) = "warn" ->
                  Goto("LOCATING_FILE", <<Entry("WARNING", "status_check_failed", ExceptionOf(r), 0, NoBody)>>)
             [] OTHER ->
                  Goto("LOCATING_FILE", <<>>)
    /\ UNCHANGED <<attempt, health, sleeps, fileFound, posts, exitCode,
                   serverImported, run, prev>>

\* ------------------------------------------------------------------------
\* import_students: the document file
\* ------------------------------------------------------------------------

\* variant: the existence test is dropped
FileMissing_Ignored(exists) == FALSE

\* `if not os.path.exists(doc_path)`
FileMissing(exists) == ~exists

\* variant: the missing file is not reported
LocateFile_Silent ==
    /\ pc = "LOCATING_FILE"
    /\ \E exists \in BOOLEAN :
        /\ fileFound' = IF exists THEN "present" ELSE "absent"
        /\ IF FileMissing(exists)
           THEN Return("False", <<>>)
           ELSE Goto("UPLOADING", <<Entry("INFO", "file_found", "", 0, NoBody)>>)
    /\ UNCHANGED <<attempt, health, sleeps, response, status, statusGets,
                   posts, exitCode, serverImported, run, prev>>

LocateFile ==
    /\ pc = "LOCATING_FILE"
    /\ \E exists \in BOOLEAN :
        /\ fileFound' = IF exists THEN "present" ELSE "absent"
        /\ IF FileMissing(exists)
           THEN Return("False", <<Entry("ERROR", "file_not_found", "", 0, NoBody)>>)
           ELSE Goto("UPLOADING", <<Entry("INFO", "file_found", "", 0, NoBody)>>)
    /\ UNCHANGED <<attempt, health, sleeps, response, status, statusGets,
                   posts, exitCode, serverImported, run, prev>>

\* ------------------------------------------------------------------------
\* import_students: upload
\* ------------------------------------------------------------------------

\* variant: `if result.get('success') is True`
UploadVerdict_IsTrue(r) ==
    IF r.kind = "exception" THEN "exception"
    ELSE IF r.code = 200
         THEN IF JsonGetRaises(r.body) THEN "exception"
              ELSE IF PyGet(r.body.success) = "true" THEN "ok"
              ELSE "rejected"
         ELSE "http_error"

\* variant: the status code is not tested
UploadVerdict_AnyStatus(r) ==
    IF r.kind = "exception" THEN "exception"
    ELSE IF JsonGetRaises(r.body) THEN "exception"
    ELSE IF Truthy(PyGet(r.body.success)) THEN "ok"
    ELSE "rejected"

\* what the try/except block around the POST does with the outcome r:
\* "ok", "rejected", "http_error" or "exception" (except branch)
UploadVerdict(r) ==
    IF r.kind = "exception" THEN "exception"
    ELSE IF r.code = 200
         THEN IF JsonGetRaises(r.body) THEN "exception"
              ELSE IF Truthy(PyGet(r.body.success)) THEN "ok"
              ELSE "rejected"
         ELSE "http_error"

\* variant: the rejection is logged without the message
UploadEntries_NoMessage(r) ==
    CASE UploadVerdict(r) = "ok" ->
           <<Entry("INFO", "import_ok", PyGet(r.body.message), 0, NoBody),
             Entry("INFO", "imported_count", PyGet(r.body.imported), 0, NoBody)>>
      [] UploadVerdict(r) = "rejected" ->
           <<Entry("ERROR", "import_error", "", 0, NoBody)>>
      [] UploadVerdict(r) = "http_error" ->
           <<Entry("ERROR", "http_error", "", r.code, NoBody)>>
      [] OTHER ->
           <<Entry("ERROR", "import_exception", ExceptionOf(r), 0, NoBody)>>

\* the records logged for the outcome r
UploadEntries(r) ==
    CASE UploadVerdict(r) = "ok" ->
           <<Entry("INFO", "import_ok", PyGet(r.body.message), 0, NoBody),
             Entry("INFO", "imported_count", PyGet(r.body.imported), 0, NoBody)>>
      [] UploadVerdict(r) = "rejected" ->
           <<Entry("ERROR", "import_error", PyGet(r.body.message), 0, NoBody)>>
      [] UploadVerdict(r) = "http_error" ->
           <<Entry("ERROR", "http_error", "", r.code, r.body)>>
      [] OTHER ->
           <<Entry("ERROR", "import_exception", ExceptionOf(r), 0, NoBody)>>

\* variant: the HTTP-error branch returns True
UploadReturn_HttpErrorOk(r) ==
    IF UploadVerdict(r) \in {"ok", "http_error"} THEN "True" ELSE "False"

\* variant: the except branch returns True
UploadReturn_ExceptionOk(r) ==
    IF UploadVerdict(r) \in {"ok", "exception"} THEN "True" ELSE "False"

\* the value returned for the outcome r
UploadReturn(r) == IF UploadVerdict(r) = "ok" THEN "True" ELSE "False"

\* the server sets its flag when it answers an upload with success
ServerAfterUpload(flag, r) ==
    \/ flag
    \/ /\ r.kind = "response"
       /\ IsSuccessStatus(r.code)
       /\ r.body.kind = "object"
       /\ Truthy(PyGet(r.body.success))

\* open(doc_path, 'rb') raises: nothing is sent
UploadOpenFails ==
    /\ pc = "UPLOADING"
    /\ Return("False", <<Entry("ERROR", "import_exception", "OSError", 0, NoBody)>>)
    /\ UNCHANGED <<attempt, health, sleeps, response, status, statusGets,
                   fileFound, posts, exitCode, serverImported, run, prev>>

\* variant: a failed upload is tried again
Upload_Retry ==
    /\ pc = "UPLOADING"
    /\ \E r \in UploadOutcomes :
        /\ posts' = posts + 1
        /\ response' = r
        /\ serverImported' = ServerAfterUpload(serverImported, r)
        /\ IF UploadVerdict(r) = "ok" \/ posts >= 2
           THEN Return(UploadReturn(r), UploadEntries(r))
           ELSE Goto("UPLOADING", UploadEntries(r))
    /\ UNCHANGED <<attempt, health, sleeps, status, statusGets, fileFound,
                   exitCode, run, prev>>

\* the file is opened and requests.post is called
Upload ==
    /\ pc = "UPLOADING"
    /\ \E r \in UploadOutcomes :
        /\ posts' = posts + 1
        /\ response' = r
        /\ serverImported' = ServerAfterUpload(serverImported, r)
        /\ Return(UploadReturn(r), UploadEntries(r))
    /\ UNCHANGED <<attempt, health, sleeps, status, statusGets, fileFound,
                   exitCode, run, prev>>

\* ------------------------------------------------------------------------
\* __main__
\* ------------------------------------------------------------------------

\* variant: the exit code does not depend on the result
ExitCodeOf_Zero(value) == 0

\* `0 if success else 1`
ExitCodeOf(value) == IF value = "True" THEN 0 ELSE 1

Main ==
    /\ pc = "RETURNED"
    /\ pc' = "EXITED"
    /\ log' = Append(log, IF retval = "True"
                          THEN Entry("INFO", "finished_ok", "", 0, NoBody)
                          ELSE Entry("ERROR", "finished_with_errors", "", 0, NoBody))
    /\ exitCode' = ExitCodeOf(retval)
    /\ UNCHANGED <<attempt, health, sleeps, response, status, statusGets,
                   fileFound, posts, retval, serverImported, run, prev>>

\* ------------------------------------------------------------------------
\* The script is started again; the server keeps its flag
\* ------------------------------------------------------------------------
NextRun ==
    /\ pc = "EXITED"
    /\ run < MaxRuns
    /\ run' = run + 1
    /\ prev' = [any |-> TRUE, success |-> (exitCode = 0), posts |-> posts]
    /\ pc' = "START"
    /\ attempt' = 0
    /\ health' = NoResponse
    /\ sleeps' = 0
    /\ response' = NoResponse
    /\ status' = NoBody
    /\ statusGets' = 0
    /\ fileFound' = "unknown"
    /\ posts' = 0
    /\ log' = <<>>
    /\ retval' = "None"
    /\ exitCode' = -1
    /\ UNCHANGED serverImported

Next ==
    \/ Start
    \/ HealthAttempt
    \/ HealthExhausted
    \/ CheckStatus
    \/ LocateFile
    \/ UploadOpenFails
    \/ Upload
    \/ Main
    \/ NextRun

Spec == Init /\ [][Next]_vars

\* the steps of one run: every call returns, raises or times out, so a step
\* of the run that can be taken is taken
RunStep ==
    \/ Start
    \/ HealthAttempt
    \/ HealthExhausted
    \/ CheckStatus
    \/ LocateFile
    \/ UploadOpenFails
    \/ Upload
    \/ Main

\* one run of the script, from either value of the server's flag (the flag is
\* all that a run inherits from the runs before it)
LiveSpec == Init /\ [][RunStep]_vars /\ WF_vars(RunStep)

\* ------------------------------------------------------------------------
\* Vocabulary of the properties
\* ------------------------------------------------------------------------

\* import_students has returned (DONE of the run sequencing)
Done == pc \in {"RETURNED", "EXITED"}

\* DONE(failure) / DONE(success), with the exit code once the process exited
Failed == Done /\ retval = "False" /\ (pc = "EXITED" => exitCode = 1)
Succeeded == Done /\ retval = "True" /\ (pc = "EXITED" => exitCode = 0)

LoggedText(kind, text) ==
    \E i \in DOMAIN log : log[i].kind = kind /\ log[i].text = text

\* the upload POST returned a response, which `response` holds
UploadAnswered == Done /\ posts = 1 /\ response.kind = "response"

\* the decoded status body says "already imported"
SaysImported(body) == body.kind = "object" /\ Truthy(PyGet(body.imported))

\* ------------------------------------------------------------------------
\* C1
\* ------------------------------------------------------------------------

\* C1: while no health request of the run has been answered with success, no
\* status request and no upload request has been issued, and a run that
\* returned in that condition returned False and exits with code 1.
C1_NoHealthNoRequests ==
    ~HealthReady(health) =>
        /\ statusGets = 0
        /\ posts = 0
        /\ Done => Failed

\* the wait ran out after max_attempts requests and the process exited
C1_Witness ==
    /\ pc = "EXITED"
    /\ health.kind \in {"exception", "response"}
    /\ ~HealthReady(health)
    /\ Logged("server_not_started")
    /\ exitCode = 1

\* ------------------------------------------------------------------------
\* C2
\* ------------------------------------------------------------------------

\* C2 as stated: once the status endpoint has answered with a success status
\* and a JSON object whose "imported" is true, the run is done with success,
\* without the file check and without an upload.
C2_AnySuccessStatus ==
    (/\ statusGets = 1
     /\ posts = 0
     /\ response.kind = "response"
     /\ IsSuccessStatus(response.code)
     /\ response.body.kind = "object"
     /\ response.body.imported = "true")
    => (Succeeded /\ fileFound = "unknown")

\* C2 (amended): once the status endpoint has answered with status 200 and a
\* JSON object whose "imported" is truthy, the run is done with success
\* (exit code 0), the file check never ran and no upload request was issued.
C2_ShortCircuit ==
    SaysImported(status) => (Succeeded /\ fileFound = "unknown" /\ posts = 0)

C2_Witness ==
    /\ pc = "EXITED"
    /\ status.imported = "true"
    /\ response.code = 200
    /\ exitCode = 0
    /\ posts = 0

\* ------------------------------------------------------------------------
\* C3
\* ------------------------------------------------------------------------

\* C3 as stated: after a status request whose outcome is not a confirmed
\* "already imported", the run is past the status step, a finished run has
\* made the file check, and with the file present the upload was issued.
C3_AlwaysPosts ==
    (statusGets = 1 /\ ~SaysImported(status)) =>
        /\ pc \in {"LOCATING_FILE", "UPLOADING", "RETURNED", "EXITED"}
        /\ Done => /\ fileFound # "unknown"
                   /\ fileFound = "present" => posts = 1

\* C3 (amended): as stated, except that with the file present the upload is
\* issued unless opening the file raised.
C3_FailOpen ==
    (statusGets = 1 /\ ~SaysImported(status)) =>
        /\ pc \in {"LOCATING_FILE", "UPLOADING", "RETURNED", "EXITED"}
        /\ Done => /\ fileFound # "unknown"
                   /\ fileFound = "present" =>
                        \/ posts = 1
                        \/ LoggedText("import_exception", "OSError")

\* the status request raised and the upload was issued all the same
C3_Witness ==
    /\ Done
    /\ LoggedText("status_check_failed", "RequestException")
    /\ fileFound = "present"
    /\ posts = 1

\* ------------------------------------------------------------------------
\* C4
\* ------------------------------------------------------------------------

\* C4: once the file check has found the file absent, the run is done with
\* failure (exit code 1) and no upload request was issued.
C4_MissingFile ==
    fileFound = "absent" => (Failed /\ posts = 0)

C4_Witness ==
    /\ pc = "EXITED"
    /\ fileFound = "absent"
    /\ exitCode = 1
    /\ Logged("file_not_found")

\* ------------------------------------------------------------------------
\* C5
\* ------------------------------------------------------------------------

\* the log carries the message and, when the body has one, the count
LoggedSuccess(body) ==
    /\ LoggedText("import_ok", PyGet(body.message))
    /\ body.imported # Absent => LoggedText("imported_count", body.imported)

\* C5 as stated: an upload answered with any success status and a JSON object
\* with a truthy "success" ends the run with success, message and count logged.
C5_AnySuccessStatus ==
    (/\ UploadAnswered
     /\ IsSuccessStatus(response.code)
     /\ response.body.kind = "object"
     /\ Truthy(PyGet(response.body.success)))
    => (Succeeded /\ LoggedSuccess(response.body))

\* C5 (amended): an upload answered with status 200 and a JSON object with a
\* truthy "success" ends the run with success (exit code 0); the log carries
\* the message and, when the body has an "imported" count, that count.
C5_UploadAccepted ==
    (/\ UploadAnswered
     /\ response.code = 200
     /\ response.body.kind = "object"
     /\ Truthy(PyGet(response.body.success)))
    => (Succeeded /\ LoggedSuccess(response.body))

\* truthy but not the literal true, with a count
C5_Witness ==
    /\ pc = "EXITED"
    /\ posts = 1
    /\ response.code = 200
    /\ response.body.success = "1"
    /\ response.body.imported = "42"
    /\ LoggedText("imported_count", "42")
    /\ exitCode = 0

\* ------------------------------------------------------------------------
\* C6
\* ------------------------------------------------------------------------

\* C6: an upload answered with a non-success status ends the run with failure
\* (exit code 1) whatever the body is, and the status code and the body are
\* logged.
C6_HttpError ==
    (UploadAnswered /\ ~IsSuccessStatus(response.code)) =>
        /\ Failed
        /\ \E i \in DOMAIN log :
              /\ log[i].kind = "http_error"
              /\ log[i].code = response.code
              /\ log[i].body = response.body

\* status 500 with a body that says success
C6_Witness ==
    /\ pc = "EXITED"
    /\ posts = 1
    /\ response.code = 500
    /\ response.body.success = "true"
    /\ exitCode = 1

\* ------------------------------------------------------------------------
\* C7
\* ------------------------------------------------------------------------

\* C7: an upload answered with a success status and a JSON object without a
\* truthy "success" ends the run with failure (exit code 1), and an error
\* record carries the body's message: the message itself after status 200,
\* the whole body after another success status.
C7_Rejected ==
    (/\ UploadAnswered
     /\ IsSuccessStatus(response.code)
     /\ response.body.kind = "object"
     /\ ~Truthy(PyGet(response.body.success)))
    => /\ Failed
       /\ \E i \in DOMAIN log :
             /\ log[i].level = "ERROR"
             /\ \/ log[i].kind = "import_error" /\ log[i].text = PyGet(response.body.message)
                \/ log[i].kind = "http_error" /\ log[i].body = response.body

C7_Witness ==
    /\ pc = "EXITED"
    /\ posts = 1
    /\ response.code = 200
    /\ response.body.success = "0"
    /\ response.body.message = "msg"
    /\ LoggedText("import_error", "msg")
    /\ exitCode = 1

\* ------------------------------------------------------------------------
\* C8
\* ------------------------------------------------------------------------

\* the previous run ended with success by uploading
PrevUploaded == prev.any /\ prev.success /\ prev.posts = 1

\* the body with which the server reports its flag
ServerStatusBody(flag) == Obj(Absent, Absent, IF flag THEN "true" ELSE "false")

\* C8 as stated: a run that follows a run which succeeded by uploading ends
\* with success through the status short-circuit and without an upload.
C8_AlwaysIdempotent ==
    (PrevUploaded /\ pc = "EXITED") =>
        (exitCode = 0 /\ Logged("already_imported") /\ posts = 0)

\* C8 (amended): a run that follows a run which succeeded by uploading, and
\* in which the health wait succeeds and the status request is answered with
\* status 200 and the server's flag, ends with success through the status
\* short-circuit and without an upload: one upload over both runs.
C8_Idempotent ==
    (/\ PrevUploaded
     /\ pc = "EXITED"
     /\ statusGets = 1
     /\ status = ServerStatusBody(serverImported))
    => /\ exitCode = 0
       /\ Logged("already_imported")
       /\ posts = 0
       /\ prev.posts + posts = 1

C8_Witness ==
    /\ PrevUploaded
    /\ pc = "EXITED"
    /\ status = ServerStatusBody(serverImported)
    /\ exitCode = 0
    /\ posts = 0

\* ------------------------------------------------------------------------
\* C9
\* ------------------------------------------------------------------------

\* C9: the process has an exit code exactly when it has exited; the code is 0
\* or 1, it is 0 exactly when import_students returned True, and it is 1
\* after each of the failure records.
C9_ExitCode ==
    /\ pc # "EXITED" => exitCode = -1
    /\ pc = "EXITED" =>
          /\ exitCode \in {0, 1}
          /\ exitCode = 0 <=> retval = "True"
          /\ (\/ Logged("server_not_started")
              \/ Logged("file_not_found")
              \/ Logged("http_error")
              \/ Logged("import_error")
              \/ Logged("import_exception")) => exitCode = 1

\* a failure after the upload, and the process exited with 1
C9_Witness ==
    /\ pc = "EXITED"
    /\ exitCode = 1
    /\ retval = "False"
    /\ Logged("import_exception")
    /\ posts = 1

\* ------------------------------------------------------------------------
\* C10
\* ------------------------------------------------------------------------

\* C10: at most one upload request is issued in a run, and once it has been
\* issued import_students has returned.
C10_SingleUpload ==
    /\ posts <= 1
    /\ posts = 1 => Done

\* the one upload failed and the run ended
C10_Witness ==
    /\ pc = "EXITED"
    /\ posts = 1
    /\ response.kind = "exception"
    /\ retval = "False"

\* ------------------------------------------------------------------------
\* C11
\* ------------------------------------------------------------------------

\* a step of wait_for_server that issues a health request
HealthRequestStep ==
    /\ pc = "WAITING_FOR_SERVER"
    /\ attempt' = attempt + 1 \/ pc' = "CHECKING_STATUS"

\* the run stays where it is after a successful wait: no health request, no
\* delay, until the script is started again
WaitIsOver == pc = "EXITED" \/ (health' = health /\ sleeps' = sleeps /\ pc' # "WAITING_FOR_SERVER")

\* C11 as stated: a health request answered with any status of the success
\* range ends the wait at that attempt, without a delay, and the run moves on
\* to the status check; no health request and no delay follows.
C11_AnySuccessStatus ==
    [][(HealthRequestStep /\ health'.kind = "response" /\ IsSuccessStatus(health'.code))
       => (pc' = "CHECKING_STATUS" /\ sleeps' = sleeps)]_vars

\* C11 (amended): a health request answered with status 200 ends the wait at
\* that attempt: the ready record is logged, no delay is waited, the run moves
\* on to the status check, and no health request and no delay follows.
C11_ReadyReturns ==
    /\ [][(HealthRequestStep /\ health'.kind = "response" /\ health'.code = 200)
          => /\ pc' = "CHECKING_STATUS"
             /\ sleeps' = sleeps
             /\ log' = Append(log, Entry("INFO", "ready", "", 0, NoBody))]_vars
    /\ [][(health.kind = "response" /\ health.code = 200) => WaitIsOver]_vars

\* the wait ended with a 200 answer after attempts that raised
C11_Witness ==
    /\ pc = "CHECKING_STATUS"
    /\ health.kind = "response"
    /\ health.code = 200
    /\ sleeps = 2
    /\ log[Len(log)].kind = "ready"

\* ------------------------------------------------------------------------
\* C12
\* ------------------------------------------------------------------------

\* C12: every unsuccessful health attempt, whether the request raised or was
\* answered with a non-success status, is followed by one wait of the delay
\* before the next attempt.
C12_DelayAfterEveryFailure ==
    [][(/\ HealthRequestStep
        /\ \/ health'.kind = "exception"
           \/ health'.kind = "response" /\ ~IsSuccessStatus(health'.code))
       => sleeps' = sleeps + 1]_vars

\* ------------------------------------------------------------------------
\* C13
\* ------------------------------------------------------------------------

\* C13: the attempt counter stays within 0..max_attempts. While the run
\* waits, `attempt` is the number of health requests issued, all of them
\* unsuccessful: a request is issued only below max_attempts, an
\* unsuccessful one adds exactly one to the counter, and wait_for_server
\* returns failure exactly at max_attempts, where no request is issued.
C13_BoundedAttempts ==
    /\ [](attempt \in 0..max_attempts)
    /\ [](Logged("server_not_started") => (Done /\ statusGets = 0))
    /\ [][pc = "WAITING_FOR_SERVER" =>
            \/ /\ attempt < max_attempts
               /\ \/ /\ health'.kind = "response" /\ health'.code = 200
                     /\ pc' = "CHECKING_STATUS"
                  \/ /\ ~(health'.kind = "response" /\ health'.code = 200)
                     /\ pc' = "WAITING_FOR_SERVER"
                     /\ attempt' = attempt + 1
            \/ /\ attempt = max_attempts
               /\ health' = health
               /\ pc' = "RETURNED"
               /\ retval' = "False"
               /\ log' = Append(log, Entry("ERROR", "server_not_started", "", 0, NoBody))]_vars

\* the wait ran out after answers of both kinds, raised and not 200
C13_Witness ==
    /\ pc = "RETURNED"
    /\ Logged("server_not_started")
    /\ sleeps > 0
    /\ sleeps < max_attempts
    /\ retval = "False"

\* ------------------------------------------------------------------------
\* C14
\* ------------------------------------------------------------------------

\* position of pc in the run sequencing
Rank ==
    CASE pc = "START" -> 0
      [] pc = "WAITING_FOR_SERVER" -> 1
      [] pc = "CHECKING_STATUS" -> 2
      [] pc = "LOCATING_FILE" -> 3
      [] pc = "UPLOADING" -> 4
      [] pc = "RETURNED" -> 5
      [] pc = "EXITED" -> 6

\* C14: every run reaches its end (import_students returns and the process
\* exits); it issues at most one status request and one upload request, and
\* every step of a run moves forward in the run sequencing, except a health
\* retry, which uses up one of the max_attempts attempts.
C14_Terminates ==
    /\ (pc # "EXITED") ~> (pc = "EXITED")
    /\ [](statusGets <= 1 /\ posts <= 1 /\ attempt <= max_attempts)
    /\ [][pc # "EXITED" =>
            \/ Rank' > Rank
            \/ /\ pc = "WAITING_FOR_SERVER"
               /\ pc' = "WAITING_FOR_SERVER"
               /\ attempt' = attempt + 1]_vars

\* a run that went through every step, with health retries, has exited
C14_Witness ==
    /\ pc = "EXITED"
    /\ sleeps > 0
    /\ statusGets = 1
    /\ fileFound = "present"
    /\ posts = 1

\* ------------------------------------------------------------------------
\* C15
\* ------------------------------------------------------------------------

\* C15: a status request has been issued only after a health request was
\* answered with 200; an upload request only after the status request and
\* after the file was found present; a run past the health wait has issued
\* the status request exactly once; and after the status request no health
\* request is issued in the run.
C15_LinearOrder ==
    /\ [](/\ statusGets <= 1
          /\ statusGets = 1 => (health.kind = "response" /\ health.code = 200 /\ Logged("ready"))
          /\ posts >= 1 => (statusGets = 1 /\ fileFound = "present")
          /\ fileFound # "unknown" => statusGets = 1
          /\ (Logged("ready") /\ pc # "CHECKING_STATUS") => statusGets = 1)
    /\ [][(statusGets >= 1 /\ pc # "EXITED") =>
            /\ health' = health
            /\ attempt' = attempt
            /\ pc' \notin {"START", "WAITING_FOR_SERVER", "CHECKING_STATUS"}]_vars

\* the upload was issued after the whole sequence
C15_Witness ==
    /\ pc = "RETURNED"
    /\ Logged("ready")
    /\ statusGets = 1
    /\ Logged("file_found")
    /\ posts = 1

\* ------------------------------------------------------------------------
\* C16
\* ------------------------------------------------------------------------

\* C16: a run whose upload step raised has returned False (exit code 1) with
\* an error record that carries the exception: the POST raised, the file
\* could not be opened, or the body of a 200 answer was not JSON or not an
\* object. An undecodable body after another success status is not decoded:
\* the run fails with the status code and the body logged.
C16_UploadException ==
    Done =>
        /\ (posts = 1 /\ response.kind = "exception") =>
              (Failed /\ LoggedText("import_exception", "RequestException"))
        /\ (posts = 0 /\ fileFound = "present") =>
              (Failed /\ LoggedText("import_exception", "OSError"))
        /\ (UploadAnswered /\ response.code = 200 /\ response.body.kind = "malformed") =>
              (Failed /\ LoggedText("import_exception", "JSONDecodeError"))
        /\ (UploadAnswered /\ response.code = 200 /\ response.body.kind = "nonobject") =>
              (Failed /\ LoggedText("import_exception", "AttributeError"))
        /\ (/\ UploadAnswered
            /\ IsSuccessStatus(response.code)
            /\ response.code # 200
            /\ response.body.kind \in {"malformed", "nonobject"}) =>
              /\ Failed
              /\ \E i \in DOMAIN log :
                    /\ log[i].level = "ERROR"
                    /\ log[i].kind = "http_error"
                    /\ log[i].code = response.code
                    /\ log[i].body = response.body

\* the body of a 200 answer to the upload was not JSON
C16_Witness ==
    /\ pc = "EXITED"
    /\ posts = 1
    /\ response.code = 200
    /\ response.body.kind = "malformed"
    /\ LoggedText("import_exception", "JSONDecodeError")
    /\ exitCode = 1

\* ------------------------------------------------------------------------
\* C17
\* ------------------------------------------------------------------------

\* C17: every health attempt, whatever its outcome, adds one progress or
\* ready record to the log.
C17_MessageEveryAttempt ==
    [][HealthRequestStep =>
         /\ Len(log') = Len(log) + 1
         /\ log'[Len(log')].kind \in {"waiting", "ready"}]_vars

\* ------------------------------------------------------------------------
\* C18
\* ------------------------------------------------------------------------

\* C18: when the run passes from the status check to the file check after a
\* status request that raised, was answered with a non-success status, or
\* was answered with a body that is not a JSON object, the log holds a
\* warning.
C18_WarningOnFailedCheck ==
    (/\ pc = "LOCATING_FILE"
     /\ \/ response.kind = "exception"
        \/ response.kind = "response" /\ ~IsSuccessStatus(response.code)
        \/ response.kind = "response" /\ response.body.kind \in {"malformed", "nonobject"})
    => \E i \in DOMAIN log : log[i].level = "WARNING"

\* ------------------------------------------------------------------------
\* C19
\* ------------------------------------------------------------------------

\* the records that name the cause of a failure
CauseKinds ==
    {"server_not_started", "file_not_found", "http_error", "import_error", "import_exception"}

\* C19: a run that returned False has logged an error record naming the
\* cause before it returned; once the process has exited, the failure summary
\* is the last record, after the cause, and the exit code is 1.
C19_FailureIsLogged ==
    (Done /\ retval = "False") =>
        /\ \E i \in DOMAIN log :
              /\ log[i].level = "ERROR"
              /\ log[i].kind \in CauseKinds
        /\ pc = "EXITED" =>
              /\ exitCode = 1
              /\ Len(log) >= 2
              /\ log[Len(log)].level = "ERROR"
              /\ log[Len(log)].kind = "finished_with_errors"
              /\ log[Len(log) - 1].level = "ERROR"
              /\ log[Len(log) - 1].kind \in CauseKinds

\* the server rejected the import, and the process exited
C19_Witness ==
    /\ pc = "EXITED"
    /\ exitCode = 1
    /\ Logged("import_error")
    /\ log[Len(log)].kind = "finished_with_errors"

\* ------------------------------------------------------------------------
\* C20
\* ------------------------------------------------------------------------

\* (a) the status request was answered 200 with an object whose "imported"
\* is truthy
StatusShortCircuit == SaysImported(status)

\* (b) not (a), the file exists, and the one upload was answered 200 with an
\* object whose "success" is truthy
UploadSucceeded ==
    /\ ~SaysImported(status)
    /\ fileFound = "present"
    /\ posts = 1
    /\ response.kind = "response"
    /\ response.code = 200
    /\ response.body.kind = "object"
    /\ Truthy(PyGet(response.body.success))

\* C20: a process that has exited has code 0 or 1, and code 0 exactly when a
\* health request was answered 200 and (a) or (b) holds.
C20_ExactSuccess ==
    pc = "EXITED" =>
        /\ exitCode \in {0, 1}
        /\ exitCode = 0 <=>
              /\ health.kind = "response"
              /\ health.code = 200
              /\ StatusShortCircuit \/ UploadSucceeded

\* success by upload after the status endpoint said "not imported"
C20_Witness ==
    /\ pc = "EXITED"
    /\ exitCode = 0
    /\ status.kind = "object"
    /\ status.imported = "false"
    /\ posts = 1
====
